---- MODULE Spec2Model ----
(***************************************************************************)
(* A model of three parts of the repository:                               *)
(*                                                                         *)
(*  - the dolly backend wrapper (package transformers): Load, Predict and  *)
(*    PredictStream over the backend lock of base.Base;                    *)
(*  - the model gallery HTTP service (package localai): the apply/job      *)
(*    endpoints and the gallery list endpoints, handled one after the      *)
(*    other and, for the list endpoints, concurrently;                     *)
(*  - the command line (package main): the run, tts and transcript         *)
(*    commands and the signal handling of main.                            *)
(*                                                                         *)
(* The parts share no state; each has its own next-state relation and      *)
(* specification over the one set of variables.                            *)
(***************************************************************************)
EXTENDS Integers, Sequences, FiniteSets, TLC

\* ------------------------------------------------------------------ bounds

\* Calls issued to the one backend instance, numbered in order of invocation.
NCalls == 2
\* Largest capacity of a results channel handed to PredictStream.
MaxChanCap == 1

\* Longest gallery list the service is created with.
MaxInitLen == 2
\* Largest spare capacity of the slice the service is created with.
MaxSlack == 1
\* HTTP requests handled by the gallery service.
MaxRequests == 3
\* Install jobs (uuids) created.
MaxJobs == 2
\* Capacity of the installer's job channel.
JobChanCap == 1

Calls == 1..NCalls
NoCall == 0
\* Texts the underlying model may return, with or without an error.
Texts == {"", "tok"}
\* error values: nil or some error
Errs == {"nil", "err"}

VARIABLES
    \* ---- dolly backend (src/unnamed/part_000)
    State,      \* llm.Base.State
    dolly,      \* llm.dolly: 0 is nil, c the model built by Load call c
    holder,     \* the call that holds the backend lock, or NoCall
    waitq,      \* calls blocked in llm.Base.Lock(), in arrival order
    ncalls,     \* number of calls invoked so far
    kind,       \* kind[c]: which method call c is
    pc,         \* pc[c]: position of call c in its method
    warned,     \* warned[c]: Load c logged "loading while already in state"
    ret,        \* ret[c]: what the method returned to its caller
    gpc,        \* gpc[c]: position of the goroutine PredictStream c spawned
    gres,       \* gres[c]: (res, err) of the goroutine's dolly.Predict
    chcap,      \* chcap[c]: capacity of the results channel of call c
    chbuf,      \* chbuf[c]: buffered elements of the results channel
    closes,     \* closes[c]: number of close(results) executed
    consumer,   \* consumer[c]: what the receiver of the channel is doing
    received,   \* received[c]: chunks the consumer received
    loadsDone,  \* number of NewDolly calls that have returned
    \* ---- model gallery service (src/core/http/endpoints/explorer/dashboard.go)
    heap,       \* backing arrays of the gallery slices, by array id
    galleries,  \* mgs.galleries: the slice header (array, length)
    clearsTail, \* whether the build's slices.DeleteFunc zeroes the freed tail
    C,          \* mgs.galleryApplier.C: install ops sent and not yet received
    current,    \* the op the installer worker is processing, or NoOp
    statuses,   \* the installer's status of each job, by uuid
    nextUuid,   \* number of uuids generated
    responded,  \* uuids returned by POST /models/apply
    nreq,       \* number of HTTP requests handled
    req,        \* the last request handled
    resp,       \* the response to it
    \* ---- command line (src/main.go)
    args,       \* the command kong selected and its flags
    cpc,        \* position of the main goroutine
    opts,       \* Run's opts slice
    events,     \* the calls made so far, in order, with their outcome
    runRet,     \* what the command's Run returns ("none" until it does)
    exitCode,   \* the exit status of the process, NotExited while it runs
    notified,   \* the cleanup goroutine has registered for the signals
    sigAt,      \* where the main goroutine was when the signal was handled
    defers,     \* deferred calls of the running Run, last registered first
    loaded,     \* backend processes the model loader has running
    \* ---- gallery handlers running concurrently
    hpc,        \* hpc[h]: position of handler h
    hop,        \* hop[h]: the endpoint handler h serves
    hin,        \* hin[h]: the gallery of its request body
    hloc,       \* hloc[h]: the slice header it loaded from mgs.galleries
    hok         \* hok[h]: it answered without an error

backendVars == <<State, dolly, holder, waitq, ncalls, kind, pc, warned, ret,
                 gpc, gres, chcap, chbuf, closes, consumer, received, loadsDone>>

galleryVars == <<heap, galleries, clearsTail, C, current, statuses, nextUuid,
                 responded, nreq, req, resp>>

cliVars == <<args, cpc, opts, events, runRet, exitCode, notified, sigAt,
             defers, loaded>>

raceVars == <<hpc, hop, hin, hloc, hok>>

vars == <<backendVars, galleryVars, cliVars, raceVars>>

NoRet == [res |-> "", err |-> "none"]

BackendInit ==
    /\ State = "UNINITIALIZED"
    /\ dolly = 0
    /\ holder = NoCall
    /\ waitq = <<>>
    /\ ncalls = 0
    /\ kind = [c \in Calls |-> "none"]
    /\ pc = [c \in Calls |-> "idle"]
    /\ warned = [c \in Calls |-> FALSE]
    /\ ret = [c \in Calls |-> NoRet]
    /\ gpc = [c \in Calls |-> "none"]
    /\ gres = [c \in Calls |-> NoRet]
    /\ chcap = [c \in Calls |-> 0]
    /\ chbuf = [c \in Calls |-> <<>>]
    /\ closes = [c \in Calls |-> 0]
    /\ consumer = [c \in Calls |-> "none"]
    /\ received = [c \in Calls |-> <<>>]
    /\ loadsDone = 0

\* ------------------------------------------------------- the backend lock
\* base.Base is not among the sources; Lock/Unlock follow the specification:
\* a semaphore of one permit, served in arrival order, and the busy state.

\* llm.Base.Lock() is called: the caller queues up.
LockRequest(c) == waitq' = Append(waitq, c)

\* llm.Base.Lock() returns to the first waiter once the lock is free.
LockGranted(c) ==
    /\ holder = NoCall
    /\ waitq # <<>>
    /\ Head(waitq) = c
    /\ holder' = c
    /\ waitq' = Tail(waitq)
    /\ State' = "BUSY"

\* llm.Base.Unlock()
Unlock ==
    /\ holder' = NoCall
    /\ State' = "READY"

\* A call is invoked: calls are numbered in the order they are invoked.
Invoke(c, k) ==
    /\ pc[c] = "idle"
    /\ c = ncalls + 1
    /\ ncalls' = c
    /\ kind' = [kind EXCEPT ![c] = k]
    /\ pc' = [pc EXCEPT ![c] = "lock"]
    /\ LockRequest(c)

\* ------------------------------------------------------------------- Load

\* Load, lines 22-26: the state check (a warning only), then Lock().
LoadEnter(c) ==
    /\ Invoke(c, "Load")
    /\ warned' = [warned EXCEPT ![c] = (State # "UNINITIALIZED")]
    /\ UNCHANGED <<State, dolly, holder, ret, gpc, gres, chcap, chbuf, closes,
                   consumer, received, loadsDone>>
    /\ UNCHANGED <<galleryVars, cliVars, raceVars>>

\* Lock() returns in a Load, Predict or PredictStream: the call is now inside.
LockAcquire(c) ==
    /\ pc[c] = "lock"
    /\ LockGranted(c)
    /\ pc' = [pc EXCEPT ![c] = "inside"]
    /\ UNCHANGED <<dolly, ncalls, kind, warned, ret, gpc, gres, chcap, chbuf,
                   closes, consumer, received, loadsDone>>
    /\ UNCHANGED <<galleryVars, cliVars, raceVars>>

\* Load, lines 28-30: NewDolly returns (model, err); llm.dolly = model also on
\* an error (model is then nil); the deferred Unlock runs; err is returned.
LoadReturn(c) ==
    /\ kind[c] = "Load"
    /\ pc[c] = "inside"
    /\ \E err \in Errs :
        /\ dolly' = IF err = "nil" THEN c ELSE 0
        /\ ret' = [ret EXCEPT ![c] = [res |-> "", err |-> err]]
    /\ loadsDone' = loadsDone + 1
    /\ Unlock
    /\ pc' = [pc EXCEPT ![c] = "done"]
    /\ UNCHANGED <<waitq, ncalls, kind, warned, gpc, gres, chcap, chbuf, closes,
                   consumer, received>>
    /\ UNCHANGED <<galleryVars, cliVars, raceVars>>

\* ---------------------------------------------------------------- Predict

\* Predict, line 34: Lock().
PredictEnter(c) ==
    /\ Invoke(c, "Predict")
    /\ UNCHANGED <<State, dolly, holder, warned, ret, gpc, gres, chcap, chbuf,
                   closes, consumer, received, loadsDone>>
    /\ UNCHANGED <<galleryVars, cliVars, raceVars>>

\* Faulty variant of PredictRelease: no deferred Unlock, the lock stays taken.
PredictKeepsLock == UNCHANGED <<holder, State>>

\* The lock after Predict has returned its result: the deferred Unlock ran.
PredictRelease == Unlock

\* Predict, lines 35-36: llm.dolly.Predict returns (res, err), the deferred
\* Unlock runs and (res, err) is returned.
PredictReturn(c) ==
    /\ kind[c] = "Predict"
    /\ pc[c] = "inside"
    /\ \E res \in Texts, err \in Errs :
        ret' = [ret EXCEPT ![c] = [res |-> res, err |-> err]]
    /\ PredictRelease
    /\ pc' = [pc EXCEPT ![c] = "done"]
    /\ UNCHANGED <<dolly, waitq, ncalls, kind, warned, gpc, gres, chcap, chbuf,
                   closes, consumer, received, loadsDone>>
    /\ UNCHANGED <<galleryVars, cliVars, raceVars>>

\* ---------------------------------------------------------- PredictStream

\* PredictStream, line 41: Lock(). The caller supplies the results channel,
\* of any capacity, and a consumer receives from it.
StreamEnter(c) ==
    /\ Invoke(c, "PredictStream")
    /\ \E n \in 0..MaxChanCap : chcap' = [chcap EXCEPT ![c] = n]
    /\ consumer' = [consumer EXCEPT ![c] = "receiving"]
    /\ UNCHANGED <<State, dolly, holder, warned, ret, gpc, gres, chbuf, closes,
                   received, loadsDone>>
    /\ UNCHANGED <<galleryVars, cliVars, raceVars>>

\* Faulty variant of StreamReturnLock: the lock is released on return, as
\* Predict does, while the goroutine still runs.
StreamReturnUnlocks == Unlock

\* The lock when PredictStream returns: still held, the goroutine releases it.
StreamReturnLock == UNCHANGED <<holder, State>>

\* PredictStream, lines 43-54: the goroutine is started and nil is returned.
StreamReturn(c) ==
    /\ kind[c] = "PredictStream"
    /\ pc[c] = "inside"
    /\ gpc[c] = "none"
    /\ gpc' = [gpc EXCEPT ![c] = "predict"]
    /\ ret' = [ret EXCEPT ![c] = [res |-> "", err |-> "nil"]]
    /\ pc' = [pc EXCEPT ![c] = "done"]
    /\ StreamReturnLock
    /\ UNCHANGED <<dolly, waitq, ncalls, kind, warned, gres, chcap, chbuf,
                   closes, consumer, received, loadsDone>>
    /\ UNCHANGED <<galleryVars, cliVars, raceVars>>

\* goroutine, lines 44-48: llm.dolly.Predict returns (res, err); an error is
\* printed and nothing else.
StreamPredict(c) ==
    /\ gpc[c] = "predict"
    /\ \E res \in Texts, err \in Errs :
        gres' = [gres EXCEPT ![c] = [res |-> res, err |-> err]]
    /\ gpc' = [gpc EXCEPT ![c] = "send"]
    /\ UNCHANGED <<State, dolly, holder, waitq, ncalls, kind, pc, warned, ret,
                   chcap, chbuf, closes, consumer, received, loadsDone>>
    /\ UNCHANGED <<galleryVars, cliVars, raceVars>>

\* Faulty variant of StreamChunk: a failed prediction sends the empty text.
StreamChunkDropsPartial(c) == IF gres[c].err = "nil" THEN gres[c].res ELSE ""

\* The chunk the goroutine sends on the results channel.
StreamChunk(c) == gres[c].res

\* goroutine, line 49: results <- res. On an unbuffered channel the send
\* completes with a receive of the consumer; on a buffered one when there is
\* room. Otherwise the goroutine stays blocked.
StreamSend(c) ==
    /\ gpc[c] = "send"
    /\ IF chcap[c] = 0
       THEN /\ consumer[c] = "receiving"
            /\ received' = [received EXCEPT ![c] = Append(@, StreamChunk(c))]
            /\ UNCHANGED chbuf
       ELSE /\ Len(chbuf[c]) < chcap[c]
            /\ chbuf' = [chbuf EXCEPT ![c] = Append(@, StreamChunk(c))]
            /\ UNCHANGED received
    /\ gpc' = [gpc EXCEPT ![c] = "close"]
    /\ UNCHANGED <<State, dolly, holder, waitq, ncalls, kind, pc, warned, ret,
                   gres, chcap, closes, consumer, loadsDone>>
    /\ UNCHANGED <<galleryVars, cliVars, raceVars>>

\* goroutine, line 50: close(results)
StreamClose(c) ==
    /\ gpc[c] = "close"
    /\ closes' = [closes EXCEPT ![c] = @ + 1]
    /\ gpc' = [gpc EXCEPT ![c] = "unlock"]
    /\ UNCHANGED <<State, dolly, holder, waitq, ncalls, kind, pc, warned, ret,
                   gres, chcap, chbuf, consumer, received, loadsDone>>
    /\ UNCHANGED <<galleryVars, cliVars, raceVars>>

\* goroutine, line 51: llm.Base.Unlock(), and the goroutine ends.
StreamUnlock(c) ==
    /\ gpc[c] = "unlock"
    /\ Unlock
    /\ gpc' = [gpc EXCEPT ![c] = "exit"]
    /\ UNCHANGED <<dolly, waitq, ncalls, kind, pc, warned, ret, gres, chcap,
                   chbuf, closes, consumer, received, loadsDone>>
    /\ UNCHANGED <<galleryVars, cliVars, raceVars>>

\* ------------------------------------------- the consumer of the channel

\* The consumer receives a buffered chunk.
ConsumerRecv(c) ==
    /\ consumer[c] = "receiving"
    /\ chbuf[c] # <<>>
    /\ received' = [received EXCEPT ![c] = Append(@, Head(chbuf[c]))]
    /\ chbuf' = [chbuf EXCEPT ![c] = Tail(@)]
    /\ UNCHANGED <<State, dolly, holder, waitq, ncalls, kind, pc, warned, ret,
                   gpc, gres, chcap, closes, consumer, loadsDone>>
    /\ UNCHANGED <<galleryVars, cliVars, raceVars>>

\* The consumer's receive finds the channel closed and drained.
ConsumerEnd(c) ==
    /\ consumer[c] = "receiving"
    /\ closes[c] > 0
    /\ chbuf[c] = <<>>
    /\ consumer' = [consumer EXCEPT ![c] = "ended"]
    /\ UNCHANGED <<State, dolly, holder, waitq, ncalls, kind, pc, warned, ret,
                   gpc, gres, chcap, chbuf, closes, received, loadsDone>>
    /\ UNCHANGED <<galleryVars, cliVars, raceVars>>

\* The consumer stops receiving (its request was cancelled, it gave up).
ConsumerAbandon(c) ==
    /\ consumer[c] = "receiving"
    /\ consumer' = [consumer EXCEPT ![c] = "abandoned"]
    /\ UNCHANGED <<State, dolly, holder, waitq, ncalls, kind, pc, warned, ret,
                   gpc, gres, chcap, chbuf, closes, received, loadsDone>>
    /\ UNCHANGED <<galleryVars, cliVars, raceVars>>

\* --------------------------------------------------------- specifications

\* ------------------------------------------------- model gallery service

\* gallery.Gallery values of the requests and of the initial list
GalleryNames == {"g1", "g2"}
GalleryURLs == {"u1", "u2"}
GalleryValues == [Name : GalleryNames, URL : GalleryURLs]
\* the zero value of gallery.Gallery
ZeroGallery == [Name |-> "", URL |-> ""]
\* request bodies of POST /models/apply (GalleryModel: id and embedded request)
ApplyInputs == {[ID |-> "g1@m1", Name |-> "m1"]}
\* c.BaseURL()
BaseURL == "http://localhost:8080"

\* Backing arrays: 0 is the empty array of a nil slice; the others are
\* allocated by append. An array no slice refers to is garbage. The service
\* and each op refer to one array, and an append may need one more.
ArrIds == 0..(MaxJobs + 2)
NilSlice == [arr |-> 0, len |-> 0]
NoOp == [Id |-> "", GalleryName |-> "", Req |-> "", Galleries |-> NilSlice]

\* uuid.String() of the n-th uuid generated
UuidString(n) == "uuid-" \o ToString(n)
UuidStrings == {UuidString(n) : n \in 1..MaxJobs}

NoReq == [op |-> "none", parsed |-> FALSE, uuidOk |-> FALSE,
          gallery |-> ZeroGallery, model |-> "", uuid |-> "", known |-> FALSE]
NoResp == [ok |-> FALSE, err |-> "", uuid |-> "", status |-> "", body |-> <<>>]

\* A handler returning err
ErrResp(msg) == [NoResp EXCEPT !.err = msg]
\* c.JSON / c.Send of a body
OkResp(body) == [NoResp EXCEPT !.ok = TRUE, !.body = body]
\* json.Marshal of a value
Marshal(v) == <<"json", v>>

\* ------------------------------------------------------------- Go slices

\* l followed by zero values up to length n
Pad(l, n) == l \o [i \in 1..(n - Len(l)) |-> ZeroGallery]

\* the elements of slice s: s[0:len(s)]
SliceElems(h, s) == SubSeq(h[s.arr], 1, s.len)

\* cap(s)
SliceCap(h, s) == Len(h[s.arr])

\* mgs.galleries as a list
List == SliceElems(heap, galleries)

\* the arrays some slice still refers to
LiveArrs(s, ch, cur) ==
    {s.arr} \cup {ch[i].Galleries.arr : i \in 1..Len(ch)} \cup {cur.Galleries.arr}

\* the garbage collector: arrays nothing refers to are gone
Collect(h, live) == [a \in ArrIds |-> IF a \in live THEN h[a] ELSE <<>>]

\* the array a new allocation gets
FreeArr(live) ==
    CHOOSE a \in ArrIds \ (live \cup {0}) :
        \A b \in ArrIds \ (live \cup {0}) : a <= b

\* the capacity append grows a full slice of capacity n to
NewCap(n) == IF n = 0 THEN 1 ELSE 2 * n

\* append(s, x): in place when there is room, else into a new, larger array a
GoAppend(h, s, x, a) ==
    IF s.len < SliceCap(h, s)
    THEN [h |-> [h EXCEPT ![s.arr][s.len + 1] = x],
          s |-> [arr |-> s.arr, len |-> s.len + 1]]
    ELSE [h |-> [h EXCEPT ![a] = Pad(Append(SliceElems(h, s), x),
                                     NewCap(SliceCap(h, s)))],
          s |-> [arr |-> a, len |-> s.len + 1]]

\* slices.ContainsFunc(l, func(g) bool { return g.Name == n })
ContainsName(l, n) == \E i \in 1..Len(l) : l[i].Name = n

\* The loop of slices.DeleteFunc over array a, reading index i with j elements
\* kept so far: a kept element moves down to index j + 1.
RECURSIVE DeleteLoop(_, _, _, _, _)
DeleteLoop(a, i, j, len, n) ==
    IF i > len
    THEN [a |-> a, j |-> j]
    ELSE IF a[i].Name = n
         THEN DeleteLoop(a, i + 1, j, len, n)
         ELSE DeleteLoop([a EXCEPT ![j + 1] = a[i]], i + 1, j + 1, len, n)

\* clear(s[j:len]) where the build's DeleteFunc does it
ClearTail(a, j, len, clear) ==
    [i \in 1..Len(a) |-> IF clear /\ i > j /\ i <= len THEN ZeroGallery ELSE a[i]]

\* Faulty variant of DeleteFunc: only the first match is removed.
DeleteFirstOnly(h, s, n, clear) ==
    LET a == h[s.arr]
        k == CHOOSE i \in 1..s.len :
                 /\ a[i].Name = n
                 /\ \A m \in 1..(i - 1) : a[m].Name # n
        b == [i \in 1..Len(a) |-> IF i >= k /\ i < s.len THEN a[i + 1] ELSE a[i]]
    IN  [h |-> [h EXCEPT ![s.arr] = ClearTail(b, s.len - 1, s.len, clear)],
         s |-> [arr |-> s.arr, len |-> s.len - 1]]

\* slices.DeleteFunc(s, func(g) bool { return g.Name == n }): compacts the
\* array in place and returns s[:j], of the same capacity
DeleteFunc(h, s, n, clear) ==
    LET r == DeleteLoop(h[s.arr], 1, 0, s.len, n)
    IN  [h |-> [h EXCEPT ![s.arr] = ClearTail(r.a, r.j, s.len, clear)],
         s |-> [arr |-> s.arr, len |-> r.j]]

\* ----------------------------------------------------------------- state

\* the lists CreateModelGalleryService may be given
InitLists == UNION {[1..n -> GalleryValues] : n \in 0..MaxInitLen}

\* The service as created with list l in a slice of k spare elements.
GalleryCreated(l, k, clear) ==
    /\ heap = [a \in ArrIds |-> IF a = 1 THEN Pad(l, Len(l) + k) ELSE <<>>]
    /\ galleries = [arr |-> IF Len(l) + k = 0 THEN 0 ELSE 1, len |-> Len(l)]
    /\ clearsTail = clear
    /\ C = <<>>
    /\ current = NoOp
    /\ statuses = [u \in UuidStrings |-> "none"]
    /\ nextUuid = 0
    /\ responded = {}
    /\ nreq = 0
    /\ req = NoReq
    /\ resp = NoResp

GalleryInit ==
    \E l \in InitLists, k \in 0..MaxSlack, clear \in BOOLEAN :
        GalleryCreated(l, k, clear)

\* the service with no gallery, while only the backend is looked at
GalleryIdle == GalleryCreated(<<>>, 0, FALSE)

\* -------------------------------------------------------- POST /models/apply

\* Faulty variant of ApplyOp: the request's id is used as the op's Id.
ApplyOpRequestId(input, u, gs) ==
    [Id |-> input.ID, GalleryName |-> input.ID, Req |-> input.Name,
     Galleries |-> gs]

\* the gallery.GalleryOp of lines 154-159
ApplyOp(input, u, gs) ==
    [Id |-> u, GalleryName |-> input.ID, Req |-> input.Name, Galleries |-> gs]

\* the status URL of line 163
StatusURL(base, u) == base \o "/models/jobs/" \o u

\* ApplyModelGalleryEndpoint: the body is parsed, a uuid generated, the op sent
\* on the installer's channel (the handler waits while the channel is full)
\* and {uuid, status} returned.
ApplyModelGallery ==
    /\ nreq < MaxRequests
    /\ nreq' = nreq + 1
    /\ \E parsed \in BOOLEAN, uuidOk \in BOOLEAN, input \in ApplyInputs :
        IF ~parsed
        THEN /\ ~uuidOk
             /\ req' = [NoReq EXCEPT !.op = "apply"]
             /\ resp' = ErrResp("cannot parse body")
             /\ UNCHANGED <<C, nextUuid, responded>>
        ELSE IF ~uuidOk
        THEN /\ req' = [NoReq EXCEPT !.op = "apply", !.parsed = TRUE,
                                     !.model = input.ID]
             /\ resp' = ErrResp("cannot generate uuid")
             /\ UNCHANGED <<C, nextUuid, responded>>
        ELSE LET u == UuidString(nextUuid + 1) IN
             /\ nextUuid < MaxJobs
             /\ Len(C) < JobChanCap
             /\ C' = Append(C, ApplyOp(input, u, galleries))
             /\ nextUuid' = nextUuid + 1
             /\ responded' = responded \cup {u}
             /\ req' = [NoReq EXCEPT !.op = "apply", !.parsed = TRUE,
                                     !.uuidOk = TRUE, !.model = input.ID]
             /\ resp' = [OkResp(<<>>) EXCEPT !.uuid = u,
                                             !.status = StatusURL(BaseURL, u)]
    /\ UNCHANGED <<heap, galleries, clearsTail, current, statuses>>
    /\ UNCHANGED <<backendVars, cliVars, raceVars>>

\* ---------------------------------------------------- GET /models/jobs/:uuid

\* galleryApplier.GetStatus(uuid): nil when the installer recorded none
GetStatus(u) == statuses[u]

\* GetOpStatusEndpoint
GetOpStatus ==
    /\ nreq < MaxRequests
    /\ nreq' = nreq + 1
    /\ \E u \in UuidStrings :
        /\ req' = [NoReq EXCEPT !.op = "status", !.parsed = TRUE, !.uuid = u,
                                !.known = (u \in responded)]
        /\ resp' = IF GetStatus(u) = "none"
                   THEN ErrResp("could not find any status for ID")
                   ELSE OkResp(Marshal(GetStatus(u)))
    /\ UNCHANGED <<heap, galleries, clearsTail, C, current, statuses, nextUuid,
                   responded>>
    /\ UNCHANGED <<backendVars, cliVars, raceVars>>

\* ---------------------------------------------------- POST /models/galleries

\* Faulty variant of AddRejects: the name is never found registered.
AddNeverRejects(l, n) == FALSE

\* lines 206-208: the name is already in the list
AddRejects(l, n) == ContainsName(l, n)

\* AddModelGalleryEndpoint: the response carries the list as it was before
\* the append (json.Marshal of a list of strings does not fail).
AddModelGallery ==
    /\ nreq < MaxRequests
    /\ nreq' = nreq + 1
    /\ \E parsed \in BOOLEAN, g \in GalleryValues :
        IF ~parsed
        THEN /\ req' = [NoReq EXCEPT !.op = "add"]
             /\ resp' = ErrResp("cannot parse body")
             /\ UNCHANGED <<heap, galleries>>
        ELSE /\ req' = [NoReq EXCEPT !.op = "add", !.parsed = TRUE, !.gallery = g]
             /\ IF AddRejects(List, g.Name)
                THEN /\ resp' = ErrResp(g.Name \o " already exists")
                     /\ UNCHANGED <<heap, galleries>>
                ELSE LET live == LiveArrs(galleries, C, current)
                         r == GoAppend(heap, galleries, g, FreeArr(live))
                     IN  /\ resp' = OkResp(Marshal(List))
                         /\ galleries' = r.s
                         /\ heap' = Collect(r.h, LiveArrs(r.s, C, current))
    /\ UNCHANGED <<clearsTail, C, current, statuses, nextUuid, responded>>
    /\ UNCHANGED <<backendVars, cliVars, raceVars>>

\* -------------------------------------------------- DELETE /models/galleries

\* RemoveModelGalleryEndpoint
RemoveModelGallery ==
    /\ nreq < MaxRequests
    /\ nreq' = nreq + 1
    /\ \E parsed \in BOOLEAN, g \in GalleryValues :
        IF ~parsed
        THEN /\ req' = [NoReq EXCEPT !.op = "remove"]
             /\ resp' = ErrResp("cannot parse body")
             /\ UNCHANGED <<heap, galleries>>
        ELSE /\ req' = [NoReq EXCEPT !.op = "remove", !.parsed = TRUE,
                                     !.gallery = g]
             /\ IF ~ContainsName(List, g.Name)
                THEN /\ resp' = ErrResp(g.Name \o " is not currently registered")
                     /\ UNCHANGED <<heap, galleries>>
                ELSE LET r == DeleteFunc(heap, galleries, g.Name, clearsTail)
                     IN  /\ resp' = OkResp(<<>>)
                         /\ galleries' = r.s
                         /\ heap' = r.h
    /\ UNCHANGED <<clearsTail, C, current, statuses, nextUuid, responded>>
    /\ UNCHANGED <<backendVars, cliVars, raceVars>>

\* ------------------------------------------------------ the installer worker
\* The gallery applier is not among the sources; following the specification
\* it is one worker that takes an op from the channel, then records the job's
\* status, and marks the job done or failed at the end.

\* op := <-C
InstallerReceive ==
    /\ current = NoOp
    /\ C # <<>>
    /\ current' = Head(C)
    /\ C' = Tail(C)
    /\ UNCHANGED <<heap, galleries, clearsTail, statuses, nextUuid, responded,
                   nreq, req, resp>>
    /\ UNCHANGED <<backendVars, cliVars, raceVars>>

\* the worker records the status of the job it received
InstallerRecord ==
    /\ current # NoOp
    /\ statuses[current.Id] = "none"
    /\ statuses' = [statuses EXCEPT ![current.Id] = "processing"]
    /\ UNCHANGED <<heap, galleries, clearsTail, C, current, nextUuid, responded,
                   nreq, req, resp>>
    /\ UNCHANGED <<backendVars, cliVars, raceVars>>

\* the job ends, done or with an error
InstallerFinish ==
    /\ current # NoOp
    /\ statuses[current.Id] = "processing"
    /\ \E st \in {"done", "error"} :
        statuses' = [statuses EXCEPT ![current.Id] = st]
    /\ current' = NoOp
    /\ heap' = Collect(heap, LiveArrs(galleries, C, NoOp))
    /\ UNCHANGED <<galleries, clearsTail, C, nextUuid, responded, nreq, req,
                   resp>>
    /\ UNCHANGED <<backendVars, cliVars, raceVars>>

\* ------------------------------------------------------------ command line
\* main (src/main.go): kong selects one command and calls its Run; a cleanup
\* goroutine ends the process on an interrupt or SIGTERM.

\* exitCode while the process runs
NotExited == -1

\* Longest list given to --external-grpc-backends.
MaxExternals == 2

\* a string as the sequence of its bytes
Str(s) ==
    CASE s = "a:h"   -> <<"a", ":", "h">>
      [] s = "b:h:1" -> <<"b", ":", "h", ":", "1">>
      [] s = "no"    -> <<"n", "o">>

\* entries of --external-grpc-backends
ExternalEntries == {Str("a:h"), Str("b:h:1"), Str("no")}
ExternalLists == UNION {[1..n -> ExternalEntries] : n \in 0..MaxExternals}
\* values of --watchdog-idle-timeout and --watchdog-busy-timeout
TimeoutStrings == {"15m", "5m", "soon"}

RunArgs ==
    [cmd : {"run"},
     DisableWelcome : BOOLEAN,
     EnableWatchdogIdle : BOOLEAN,
     WatchdogIdleTimeout : TimeoutStrings,
     EnableWatchdogBusy : BOOLEAN,
     WatchdogBusyTimeout : TimeoutStrings,
     ParallelRequests : BOOLEAN,
     SingleActiveBackend : BOOLEAN,
     ExternalGRPCBackends : ExternalLists,
     AutoloadGalleries : BOOLEAN,
     PreloadBackendOnly : BOOLEAN]

TTSArgs == [cmd : {"tts"}, OutputFile : {"", "out.wav"}]

TranscriptArgs == [cmd : {"transcript"}]

NoArgs == [cmd |-> "none"]

\* a config.AppOption: its name and what it was built from
Option(o) == [opt |-> o, dur |-> 0, backend |-> <<>>, uri |-> <<>>]
\* config.SetWatchDogIdleTimeout(d) and config.SetWatchDogBusyTimeout(d)
SetWatchDogTimeout(o, d) == [Option(o) EXCEPT !.dur = d]
WithExternalBackend(n, u) ==
    [Option("WithExternalBackend") EXCEPT !.backend = n, !.uri = u]

\* a call made by a command, its arguments (Startup's options) and outcome
Event(call, ok) == [call |-> call, ok |-> ok, opts |-> <<>>]

\* the process before main has run any command
CliInit ==
    /\ args = NoArgs
    /\ cpc = "main"
    /\ opts = <<>>
    /\ events = <<>>
    /\ runRet = "none"
    /\ exitCode = NotExited
    /\ notified = FALSE
    /\ sigAt = "none"
    /\ defers = <<>>
    /\ loaded = 0

\* time.ParseDuration on the timeout strings, the duration in seconds
ParseDuration(s) ==
    CASE s = "15m" -> [ok |-> TRUE, dur |-> 900, err |-> "nil"]
      [] s = "5m"  -> [ok |-> TRUE, dur |-> 300, err |-> "nil"]
      [] OTHER     -> [ok |-> FALSE, dur |-> 0,
                       err |-> "time: invalid duration " \o s]

\* strings.IndexByte(v, c): the index from 0 of the first c in v, or -1
IndexByte(v, c) ==
    IF \E i \in 1..Len(v) : v[i] = c
    THEN (CHOOSE i \in 1..Len(v) : v[i] = c /\ \A k \in 1..(i - 1) : v[k] # c) - 1
    ELSE -1

\* Faulty variant of WatchDogEnabled: the watchdog needs both checks.
WatchDogNeedsBoth(idle, busy) == idle /\ busy

\* line 118: idleWatchDog || busyWatchDog
WatchDogEnabled(idle, busy) == idle \/ busy

\* lines 120-127 and 128-135: the check's option, then the parsed timeout; an
\* unparsable timeout ends Run with the parse error
WatchDogCheck(o, enabled, check, timeout, set) ==
    IF ~enabled
    THEN [opts |-> o, err |-> "nil"]
    ELSE LET p == ParseDuration(timeout)
         IN  IF ~p.ok
             THEN [opts |-> Append(o, Option(check)), err |-> p.err]
             ELSE [opts |-> o \o <<Option(check), SetWatchDogTimeout(set, p.dur)>>,
                   err |-> "nil"]

\* lines 118-136
WatchDogOptions(o, a) ==
    IF ~WatchDogEnabled(a.EnableWatchdogIdle, a.EnableWatchdogBusy)
    THEN [opts |-> o, err |-> "nil"]
    ELSE LET idle == WatchDogCheck(Append(o, Option("EnableWatchDog")),
                                   a.EnableWatchdogIdle,
                                   "EnableWatchDogIdleCheck",
                                   a.WatchdogIdleTimeout,
                                   "SetWatchDogIdleTimeout")
         IN  IF idle.err # "nil"
             THEN idle
             ELSE WatchDogCheck(idle.opts,
                                a.EnableWatchdogBusy,
                                "EnableWatchDogBusyCheck",
                                a.WatchdogBusyTimeout,
                                "SetWatchDogBusyTimeout")

\* lines 146-150: v[:i] and v[i+1:] with i the index of the first ':'; with
\* no ':' in v the index is -1 and v[:-1] panics (slice bounds out of range)
RECURSIVE ExternalOptions(_, _)
ExternalOptions(o, vs) ==
    IF vs = <<>>
    THEN [opts |-> o, panic |-> FALSE]
    ELSE LET v == Head(vs)
             i == IndexByte(v, ":")
         IN  IF i < 0
             THEN [opts |-> o, panic |-> TRUE]
             ELSE ExternalOptions(
                      Append(o, WithExternalBackend(SubSeq(v, 1, i),
                                                    SubSeq(v, i + 2, Len(v)))),
                      Tail(vs))

\* append(opts, option) when the flag is set
WithFlag(o, flag, name) == IF flag THEN Append(o, Option(name)) ELSE o

\* the options of lines 86-109, which no flag modelled here changes
BaseOptions == <<Option("base")>>

\* ------------------------------------------------------------- RunCMD.Run

\* Run, lines 84-154: the options are built from the flags. An unparsable
\* timeout of an enabled check returns the error; an external backend entry
\* with no ':' panics; otherwise Run goes on to the startup.
RunBuildOptions ==
    /\ cpc = "main"
    /\ \E a \in RunArgs :
        LET o1 == WithFlag(BaseOptions, a.DisableWelcome, "DisableWelcomePage")
            w == WatchDogOptions(o1, a)
            o2 == WithFlag(WithFlag(w.opts, a.ParallelRequests,
                                    "EnableParallelBackendRequests"),
                           a.SingleActiveBackend, "EnableSingleBackend")
            e == ExternalOptions(o2, a.ExternalGRPCBackends)
            o3 == WithFlag(e.opts, a.AutoloadGalleries, "EnableGalleriesAutoload")
        IN  /\ args' = a
            /\ IF w.err # "nil"
               THEN /\ opts' = w.opts
                    /\ runRet' = w.err
                    /\ cpc' = "unwind"
                    /\ UNCHANGED exitCode
               ELSE IF e.panic
               THEN /\ opts' = e.opts
                    /\ cpc' = "panicked"
                    /\ exitCode' = 2
                    /\ UNCHANGED runRet
               ELSE /\ opts' = o3
                    /\ cpc' = "startup"
                    /\ UNCHANGED <<runRet, exitCode>>
    /\ UNCHANGED <<events, notified, sigAt, defers, loaded>>
    /\ UNCHANGED <<backendVars, galleryVars, raceVars>>

\* the error of a failed startup.Startup
StartupError == "startup error"

\* Faulty variant of PreloadOnly: the flag is ignored.
PreloadIgnored(a) == FALSE

\* line 156: r.PreloadBackendOnly
PreloadOnly(a) == a.PreloadBackendOnly

\* Faulty variant of StartupFailed: the error of Startup is not looked at.
StartupErrorIgnored(ok) == FALSE

\* line 163: err != nil
StartupFailed(ok) == ~ok

\* Run, lines 156-165: startup.Startup(opts...). With preload-backend-only
\* its error is returned as it is; otherwise a failure is wrapped and returned.
RunStartup ==
    /\ cpc = "startup"
    /\ \E ok \in BOOLEAN :
        /\ events' = Append(events, [Event("Startup", ok) EXCEPT !.opts = opts])
        /\ IF PreloadOnly(args)
           THEN /\ runRet' = IF ok THEN "nil" ELSE StartupError
                /\ cpc' = "unwind"
           ELSE IF StartupFailed(ok)
           THEN /\ runRet' = "failed basic startup tasks with error "
                                 \o StartupError
                /\ cpc' = "unwind"
           ELSE /\ cpc' = "watch"
                /\ UNCHANGED runRet
    /\ UNCHANGED <<args, opts, exitCode, notified, sigAt, defers, loaded>>
    /\ UNCHANGED <<backendVars, galleryVars, raceVars>>

\* Run, lines 167-177: when the configuration directory exists it is watched;
\* the returned close function is deferred before the error is looked at.
RunWatchConfig ==
    /\ cpc = "watch"
    /\ \E dir \in {"absent", "watched", "failed"} :
        IF dir = "absent"
        THEN /\ cpc' = "app"
             /\ UNCHANGED <<events, defers, runRet>>
        ELSE /\ events' = Append(events, Event("WatchConfigDirectory",
                                               dir = "watched"))
             /\ defers' = <<"closeConfigWatcherFn">> \o defers
             /\ IF dir = "watched"
                THEN cpc' = "app" /\ UNCHANGED runRet
                ELSE /\ cpc' = "unwind"
                     /\ runRet' = "failed while watching configuration directory"
    /\ UNCHANGED <<args, opts, exitCode, notified, sigAt, loaded>>
    /\ UNCHANGED <<backendVars, galleryVars, raceVars>>

\* Run, lines 179-183: http.App; its error is logged and returned.
RunApp ==
    /\ cpc = "app"
    /\ \E ok \in BOOLEAN :
        /\ events' = Append(events, Event("App", ok))
        /\ IF ok
           THEN cpc' = "listen" /\ UNCHANGED runRet
           ELSE cpc' = "unwind" /\ runRet' = "app error"
    /\ UNCHANGED <<args, opts, exitCode, notified, sigAt, defers, loaded>>
    /\ UNCHANGED <<backendVars, galleryVars, raceVars>>

\* Run, line 185: appHTTP.Listen(r.Address) serves until the process ends, or
\* fails to listen and returns its error.
RunListen ==
    /\ cpc = "listen"
    /\ \E ok \in BOOLEAN :
        /\ events' = Append(events, Event("Listen", ok))
        /\ IF ok
           THEN cpc' = "listening" /\ UNCHANGED runRet
           ELSE cpc' = "unwind" /\ runRet' = "listen error"
    /\ UNCHANGED <<args, opts, exitCode, notified, sigAt, defers, loaded>>
    /\ UNCHANGED <<backendVars, galleryVars, raceVars>>

\* A Run returns: its deferred calls run, the last registered first, and then
\* the value is handed to main. StopAllGRPC stops every backend of the loader.
Unwind ==
    /\ cpc = "unwind"
    /\ IF defers # <<>>
       THEN /\ events' = Append(events, Event(Head(defers), TRUE))
            /\ defers' = Tail(defers)
            /\ loaded' = IF Head(defers) = "StopAllGRPC" THEN 0 ELSE loaded
            /\ UNCHANGED cpc
       ELSE /\ cpc' = "returned"
            /\ UNCHANGED <<events, defers, loaded>>
    /\ UNCHANGED <<args, opts, runRet, exitCode, notified, sigAt>>
    /\ UNCHANGED <<backendVars, galleryVars, raceVars>>

\* main, line 440: ctx.FatalIfErrorf(err) exits with 1 on an error; with none
\* main returns and the process exits with 0.
MainExit ==
    /\ cpc = "returned"
    /\ exitCode' = IF runRet = "nil" THEN 0 ELSE 1
    /\ cpc' = "exited"
    /\ UNCHANGED <<args, opts, events, runRet, notified, sigAt, defers, loaded>>
    /\ UNCHANGED <<backendVars, galleryVars, raceVars>>

\* main, lines 360-362: the cleanup goroutine registers for os.Interrupt and
\* SIGTERM.
SignalNotify ==
    /\ ~notified
    /\ exitCode = NotExited
    /\ notified' = TRUE
    /\ UNCHANGED <<args, cpc, opts, events, runRet, exitCode, sigAt, defers,
                   loaded>>
    /\ UNCHANGED <<backendVars, galleryVars, raceVars>>

\* main, lines 363-364: a signal is received and os.Exit(1) ends the process
\* wherever the main goroutine is; deferred calls do not run.
SignalExit ==
    /\ notified
    /\ exitCode = NotExited
    /\ exitCode' = 1
    /\ sigAt' = cpc
    /\ cpc' = "exited"
    /\ UNCHANGED <<args, opts, events, runRet, notified, defers, loaded>>
    /\ UNCHANGED <<backendVars, galleryVars, raceVars>>

\* ------------------------------------------------------------- TTSCMD.Run

\* Faulty variant of TTSDefers: StopAllGRPC is not deferred.
TTSNoDefers == <<>>

\* line 271: defer ml.StopAllGRPC()
TTSDefers == <<"StopAllGRPC">>

\* Run, lines 252-274: the loader is created and its shutdown deferred.
TTSStart ==
    /\ cpc = "main"
    /\ \E a \in TTSArgs : args' = a
    /\ events' = Append(events, Event("NewModelLoader", TRUE))
    /\ defers' = TTSDefers \o defers
    /\ cpc' = "tts"
    /\ UNCHANGED <<opts, runRet, exitCode, notified, sigAt, loaded>>
    /\ UNCHANGED <<backendVars, galleryVars, raceVars>>

\* Run, lines 276-279: backend.ModelTTS loads the backend and synthesizes; it
\* may fail before or after the backend was started.
TTSModel ==
    /\ cpc = "tts"
    /\ \E ok \in BOOLEAN, n \in 0..1 :
        /\ ok => n = 1
        /\ events' = Append(events, Event("ModelTTS", ok))
        /\ loaded' = n
        /\ IF ok
           THEN cpc' = "rename" /\ UNCHANGED runRet
           ELSE cpc' = "unwind" /\ runRet' = "tts error"
    /\ UNCHANGED <<args, opts, exitCode, notified, sigAt, defers>>
    /\ UNCHANGED <<backendVars, galleryVars, raceVars>>

\* Run, lines 280-288: with an output file the result is renamed to it.
TTSOutput ==
    /\ cpc = "rename"
    /\ IF args.OutputFile # ""
       THEN \E ok \in BOOLEAN :
               /\ events' = Append(events, Event("Rename", ok))
               /\ runRet' = IF ok THEN "nil" ELSE "rename error"
       ELSE /\ runRet' = "nil"
            /\ UNCHANGED events
    /\ cpc' = "unwind"
    /\ UNCHANGED <<args, opts, exitCode, notified, sigAt, defers, loaded>>
    /\ UNCHANGED <<backendVars, galleryVars, raceVars>>

\* ------------------------------------------------------ TranscriptCMD.Run

\* Run, lines 300-322: the loaders are created and the configs loaded from the
\* models path; a load error and a model with no config return before the
\* shutdown of the model loader is deferred.
TranscriptStart ==
    /\ cpc = "main"
    /\ \E a \in TranscriptArgs : args' = a
    /\ \E loadOk \in BOOLEAN, exists \in BOOLEAN :
        LET made == Append(events, Event("NewModelLoader", TRUE))
            read == Append(made, Event("LoadBackendConfigsFromPath", loadOk))
        IN  IF ~loadOk
            THEN /\ events' = read
                 /\ runRet' = "load error"
                 /\ cpc' = "unwind"
                 /\ UNCHANGED defers
            ELSE IF ~exists
            THEN /\ events' = Append(read, Event("GetBackendConfig", FALSE))
                 /\ runRet' = "model not found"
                 /\ cpc' = "unwind"
                 /\ UNCHANGED defers
            ELSE /\ events' = Append(read, Event("GetBackendConfig", TRUE))
                 /\ defers' = <<"StopAllGRPC">> \o defers
                 /\ cpc' = "transcript"
                 /\ UNCHANGED runRet
    /\ UNCHANGED <<opts, exitCode, notified, sigAt, loaded>>
    /\ UNCHANGED <<backendVars, galleryVars, raceVars>>

\* Run, lines 324-331: backend.ModelTranscription loads the backend and
\* transcribes; the segments are printed.
TranscriptModel ==
    /\ cpc = "transcript"
    /\ \E ok \in BOOLEAN, n \in 0..1 :
        /\ ok => n = 1
        /\ events' = Append(events, Event("ModelTranscription", ok))
        /\ loaded' = n
        /\ runRet' = IF ok THEN "nil" ELSE "transcription error"
    /\ cpc' = "unwind"
    /\ UNCHANGED <<args, opts, exitCode, notified, sigAt, defers>>
    /\ UNCHANGED <<backendVars, galleryVars, raceVars>>

\* ------------------------------------- gallery handlers run concurrently
\* The HTTP server runs each request's handler in its own goroutine; the
\* handlers of /models/galleries read and write mgs.galleries with no lock.
\* A handler's reads and writes of the shared list are steps of their own.

\* Requests to /models/galleries handled at the same time.
NHandlers == 2

Handlers == 1..NHandlers

\* request bodies of the concurrent requests
RaceInputs == {g \in GalleryValues : g.URL = "u1"}

\* no handler has started
RaceIdle ==
    /\ hpc = [h \in Handlers |-> "idle"]
    /\ hop = [h \in Handlers |-> "none"]
    /\ hin = [h \in Handlers |-> ZeroGallery]
    /\ hloc = [h \in Handlers |-> NilSlice]
    /\ hok = [h \in Handlers |-> FALSE]

\* the arrays the list or a handler's loaded slice header refers to
RaceLive(s, loc, p) ==
    {s.arr} \cup {loc[h].arr : h \in {k \in Handlers : p[k] = "store"}}

\* AddModelGalleryEndpoint and RemoveModelGalleryEndpoint, lines 200-205 and
\* 222-227: the body is parsed.
HandlerBegin(h, op) ==
    /\ hpc[h] = "idle"
    /\ hop' = [hop EXCEPT ![h] = op]
    /\ \E parsed \in BOOLEAN, g \in RaceInputs :
        IF parsed
        THEN /\ hin' = [hin EXCEPT ![h] = g]
             /\ hpc' = [hpc EXCEPT ![h] = "check"]
        ELSE /\ hpc' = [hpc EXCEPT ![h] = "done"]
             /\ UNCHANGED hin
    /\ UNCHANGED <<hloc, hok>>
    /\ UNCHANGED <<heap, galleries>>
    /\ UNCHANGED <<clearsTail, C, current, statuses, nextUuid, responded, nreq,
                   req, resp>>
    /\ UNCHANGED <<backendVars, cliVars>>

\* lines 206-210: slices.ContainsFunc on the list as it is now; a registered
\* name ends the POST with "already exists"
AddCheck(h) ==
    /\ hop[h] = "add"
    /\ hpc[h] = "check"
    /\ hpc' = [hpc EXCEPT ![h] =
                  IF AddRejects(List, hin[h].Name) THEN "done" ELSE "load"]
    /\ UNCHANGED <<hop, hin, hloc, hok>>
    /\ UNCHANGED <<heap, galleries>>
    /\ UNCHANGED <<clearsTail, C, current, statuses, nextUuid, responded, nreq,
                   req, resp>>
    /\ UNCHANGED <<backendVars, cliVars>>

\* lines 228-232: a name that is not registered ends the DELETE with an error
RemoveCheck(h) ==
    /\ hop[h] = "remove"
    /\ hpc[h] = "check"
    /\ hpc' = [hpc EXCEPT ![h] =
                  IF ContainsName(List, hin[h].Name) THEN "load" ELSE "done"]
    /\ UNCHANGED <<hop, hin, hloc, hok>>
    /\ UNCHANGED <<heap, galleries>>
    /\ UNCHANGED <<clearsTail, C, current, statuses, nextUuid, responded, nreq,
                   req, resp>>
    /\ UNCHANGED <<backendVars, cliVars>>

\* lines 216 and 233: mgs.galleries is read, as the argument of append or of
\* slices.DeleteFunc
HandlerLoad(h) ==
    /\ hpc[h] = "load"
    /\ hloc' = [hloc EXCEPT ![h] = galleries]
    /\ hpc' = [hpc EXCEPT ![h] = "store"]
    /\ UNCHANGED <<hop, hin, hok>>
    /\ UNCHANGED <<heap, galleries>>
    /\ UNCHANGED <<clearsTail, C, current, statuses, nextUuid, responded, nreq,
                   req, resp>>
    /\ UNCHANGED <<backendVars, cliVars>>

\* line 216: append writes the element after the slice it was given and the
\* result is stored in mgs.galleries
AddStore(h) ==
    /\ hop[h] = "add"
    /\ hpc[h] = "store"
    /\ hpc' = [hpc EXCEPT ![h] = "done"]
    /\ hok' = [hok EXCEPT ![h] = TRUE]
    /\ LET r == GoAppend(heap, hloc[h], hin[h],
                         FreeArr(RaceLive(galleries, hloc, hpc)))
       IN  /\ galleries' = r.s
           /\ heap' = Collect(r.h, RaceLive(r.s, hloc, hpc'))
    /\ UNCHANGED <<hop, hin, hloc>>
    /\ UNCHANGED <<clearsTail, C, current, statuses, nextUuid, responded, nreq,
                   req, resp>>
    /\ UNCHANGED <<backendVars, cliVars>>

\* lines 233-235: slices.DeleteFunc compacts the array of the slice it was
\* given and the result is stored in mgs.galleries
RemoveStore(h) ==
    /\ hop[h] = "remove"
    /\ hpc[h] = "store"
    /\ hpc' = [hpc EXCEPT ![h] = "done"]
    /\ hok' = [hok EXCEPT ![h] = TRUE]
    /\ LET r == DeleteFunc(heap, hloc[h], hin[h].Name, clearsTail)
       IN  /\ galleries' = r.s
           /\ heap' = Collect(r.h, RaceLive(r.s, hloc, hpc'))
    /\ UNCHANGED <<hop, hin, hloc>>
    /\ UNCHANGED <<clearsTail, C, current, statuses, nextUuid, responded, nreq,
                   req, resp>>
    /\ UNCHANGED <<backendVars, cliVars>>

\* the lists with pairwise distinct names the service may be created with
DistinctLists ==
    {l \in InitLists : \A i, j \in 1..Len(l) : i # j => l[i].Name # l[j].Name}

\* the gallery service created with a list of distinct names
RaceGalleryInit ==
    \E l \in DistinctLists, k \in 0..MaxSlack, clear \in BOOLEAN :
        GalleryCreated(l, k, clear)

RaceNext ==
    \E h \in Handlers :
        \/ HandlerBegin(h, "add")
        \/ HandlerBegin(h, "remove")
        \/ AddCheck(h)
        \/ RemoveCheck(h)
        \/ HandlerLoad(h)
        \/ AddStore(h)
        \/ RemoveStore(h)

\* the backend untouched, the gallery service just created
GalleryStart == BackendInit /\ GalleryInit /\ CliInit /\ RaceIdle

GalleryNext ==
    \/ ApplyModelGallery
    \/ GetOpStatus
    \/ AddModelGallery
    \/ RemoveModelGallery
    \/ InstallerReceive
    \/ InstallerRecord
    \/ InstallerFinish

\* The gallery service handling its requests one after the other, beside the
\* installer worker.
GallerySpec == GalleryStart /\ [][GalleryNext]_vars

Init == BackendInit /\ GalleryIdle /\ CliInit /\ RaceIdle

\* Steps of call c that the scheduler runs whenever they can run.
Progress(c) ==
    \/ LockAcquire(c)
    \/ LoadReturn(c)
    \/ PredictReturn(c)
    \/ StreamReturn(c)
    \/ StreamPredict(c)
    \/ StreamSend(c)
    \/ StreamClose(c)
    \/ StreamUnlock(c)
    \/ ConsumerRecv(c)
    \/ ConsumerEnd(c)

BackendNext ==
    \E c \in Calls :
        \/ LoadEnter(c)
        \/ PredictEnter(c)
        \/ StreamEnter(c)
        \/ LockAcquire(c)
        \/ LoadReturn(c)
        \/ PredictReturn(c)
        \/ StreamReturn(c)
        \/ StreamPredict(c)
        \/ StreamSend(c)
        \/ StreamClose(c)
        \/ StreamUnlock(c)
        \/ ConsumerRecv(c)
        \/ ConsumerEnd(c)
        \/ ConsumerAbandon(c)

\* Load, Predict and PredictStream calls on one backend, any interleaving.
BackendSpec == Init /\ [][BackendNext]_vars

\* The same with the scheduler's fairness: a goroutine that can run does run.
BackendLiveSpec == BackendSpec /\ \A c \in Calls : WF_vars(Progress(c))

PredictNext ==
    \E c \in Calls :
        \/ LoadEnter(c)
        \/ PredictEnter(c)
        \/ LockAcquire(c)
        \/ LoadReturn(c)
        \/ PredictReturn(c)

\* Concurrent Load and Predict calls only, with the scheduler's fairness.
PredictSpec ==
    Init /\ [][PredictNext]_vars /\ \A c \in Calls : WF_vars(Progress(c))

StreamNext ==
    \E c \in Calls :
        \/ StreamEnter(c)
        \/ LockAcquire(c)
        \/ StreamReturn(c)
        \/ StreamPredict(c)
        \/ StreamSend(c)
        \/ StreamClose(c)
        \/ StreamUnlock(c)
        \/ ConsumerRecv(c)
        \/ ConsumerEnd(c)

\* Concurrent PredictStream calls whose consumers receive until the channel is
\* closed, with the scheduler's fairness.
StreamSpec ==
    Init /\ [][StreamNext]_vars /\ \A c \in Calls : WF_vars(Progress(c))

CliNext ==
    \/ RunBuildOptions
    \/ RunStartup
    \/ RunWatchConfig
    \/ RunApp
    \/ RunListen
    \/ TTSStart
    \/ TTSModel
    \/ TTSOutput
    \/ TranscriptStart
    \/ TranscriptModel
    \/ Unwind
    \/ MainExit
    \/ SignalNotify
    \/ SignalExit

\* One run of the program: a command, and the signal that may end it.
CliSpec == Init /\ [][CliNext]_vars

RaceStart == BackendInit /\ RaceGalleryInit /\ CliInit /\ RaceIdle

\* Requests to /models/galleries handled concurrently, any interleaving.
RaceSpec == RaceStart /\ [][RaceNext]_vars

\* ------------------------------------------------- claims on the backend

\* A stream is over: its goroutine has ended and its consumer saw the close.
StreamOver(c) ==
    /\ kind[c] = "PredictStream"
    /\ gpc[c] = "exit"
    /\ consumer[c] = "ended"

\* What the caller and the consumer of stream c can observe of it.
Observed(c) ==
    [err |-> ret[c].err, chunks |-> received[c], closed |-> closes[c] > 0]

\* A call is inside the underlying model (NewDolly or dolly.Predict); a
\* PredictStream is, from its return until its goroutine closed the channel.
InFlight(c) ==
    \/ pc[c] = "inside" /\ kind[c] \in {"Load", "Predict"}
    \/ gpc[c] \in {"predict", "send", "close"}

\* C1: every PredictStream invocation results in exactly one close of its
\* results channel: the channel is never closed twice, and once PredictStream
\* has returned the channel is eventually closed, also when the prediction
\* failed or the consumer stopped receiving.
C1_StreamClosedExactlyOnce ==
    \A c \in Calls :
        /\ [](closes[c] <= 1)
        /\ [](kind[c] = "PredictStream" /\ pc[c] = "done" => <>(closes[c] = 1))

\* C2: the goroutine of a PredictStream always terminates, having released
\* the backend lock, and every call waiting for the lock eventually gets it.
C2_StreamLockReleased ==
    \A c \in Calls :
        /\ [](gpc[c] = "predict" => <>(gpc[c] = "exit" /\ holder # c))
        /\ [](pc[c] = "lock" => <>(pc[c] # "lock"))

\* C3: at most one call is inside the underlying model at any instant.
C3_OneInFlight == Cardinality({c \in Calls : InFlight(c)}) <= 1

\* C3 witness: a stream is in flight while another call waits for the lock.
C3_Witness ==
    \E c, d \in Calls :
        /\ kind[c] = "PredictStream"
        /\ InFlight(c)
        /\ pc[d] = "lock"

\* Predict calls that began predicting start in the order they asked for the
\* lock (the order of invocation), one after the other has completed.
PredictInOrder ==
    \A i, j \in Calls :
        (/\ i < j
         /\ kind[i] = "Predict"
         /\ kind[j] = "Predict"
         /\ pc[j] \in {"inside", "done"}) => pc[i] = "done"

\* C4: concurrent Predict calls are serialized in arrival order (a call that
\* asked for the lock earlier starts and completes its prediction before a
\* later one starts), and every Predict call eventually completes.
C4_PredictArrivalOrder ==
    /\ []PredictInOrder
    /\ \A c \in Calls :
        [](kind[c] = "Predict" /\ pc[c] = "lock" => <>(pc[c] = "done"))

\* C4 witness: a Predict is predicting while a later Predict waits for the lock.
C4_Witness ==
    \E i, j \in Calls :
        /\ i < j
        /\ kind[i] = "Predict" /\ pc[i] = "inside"
        /\ kind[j] = "Predict" /\ pc[j] = "lock"

\* C5: a PredictStream whose prediction failed is told apart from one whose
\* prediction succeeded by what the caller and the consumer observe: the
\* returned error, the chunks received and the close.
C5_StreamFailureSurfaced ==
    \A c, d \in Calls :
        (/\ StreamOver(c)
         /\ StreamOver(d)
         /\ gres[c].err = "err"
         /\ gres[d].err = "nil") => Observed(c) # Observed(d)

\* C6: once a Load has completed on the instance, a Load that found the
\* backend out of state UNINITIALIZED does not get to call NewDolly.
C6_LoadOneShot ==
    \A c \in Calls :
        (kind[c] = "Load" /\ warned[c] /\ loadsDone >= 1) => pc[c] # "inside"

\* --------------------------------------- claims on the gallery service

\* the step is the handling of a request of kind op
Handles(op) == nreq' = nreq + 1 /\ req'.op = op

\* name n is registered in list l
Registered(l, n) == \E i \in 1..Len(l) : l[i].Name = n

\* the names of list l are pairwise distinct
DistinctNames(l) == \A i, j \in 1..Len(l) : i # j => l[i].Name # l[j].Name

\* list l without its entries named n
Without(l, n) ==
    LET Keep(g) == g.Name # n IN SelectSeq(l, Keep)

\* C7: a POST /models/apply whose body parses and whose uuid is generated
\* puts exactly one op on the installer's channel before it responds; the
\* op's Id is the uuid of the response, a uuid no earlier response carried,
\* and the response's status is BaseURL + "/models/jobs/" + uuid. A request
\* whose body does not parse puts nothing on the channel and returns an error.
C7_ApplyEnqueuesOneOp ==
    [][Handles("apply") =>
        /\ (req'.parsed /\ req'.uuidOk) =>
              /\ resp'.ok
              /\ Len(C') = Len(C) + 1
              /\ SubSeq(C', 1, Len(C)) = C
              /\ C'[Len(C')].Id = resp'.uuid
              /\ resp'.uuid \notin responded
              /\ resp'.status = BaseURL \o "/models/jobs/" \o resp'.uuid
        /\ ~req'.parsed => (C' = C /\ ~resp'.ok /\ resp'.err # "")]_vars

\* C7 witness: the second apply has answered and its op is on the channel.
C7_Witness ==
    /\ req.op = "apply"
    /\ resp.ok
    /\ nextUuid = 2
    /\ C # <<>>
    /\ C[Len(C)].Id = resp.uuid

\* C8: a GET /models/jobs/<uuid> for a uuid that a POST /models/apply has
\* returned does not fail with "could not find any status for ID".
C8_StatusKnownAfterApply ==
    (req.op = "status" /\ req.known) => resp.ok

\* C9: handled one after the other, POST and DELETE /models/galleries keep
\* the names of the list pairwise distinct; a POST of a registered name fails
\* with "already exists" and leaves the list as it is; a POST of a new name
\* appends that gallery at the end and leaves the other entries in place.
C9_AddKeepsNamesDistinct ==
    [][/\ DistinctNames(List) => DistinctNames(List')
       /\ (Handles("add") /\ req'.parsed) =>
             IF Registered(List, req'.gallery.Name)
             THEN /\ ~resp'.ok
                  /\ resp'.err = req'.gallery.Name \o " already exists"
                  /\ List' = List
             ELSE /\ resp'.ok
                  /\ List' = Append(List, req'.gallery)]_vars

\* C9 witness: a POST appended a gallery to a list that had one already.
C9_Witness ==
    /\ req.op = "add"
    /\ resp.ok
    /\ galleries.len >= 2
    /\ List[galleries.len] = req.gallery
    /\ DistinctNames(List)

\* C10: a DELETE /models/galleries of a name that is not registered fails
\* with "is not currently registered" and leaves the list as it is; of a
\* registered name it removes every entry of that name and keeps the others
\* in their order, so that the same DELETE again fails.
C10_RemoveDeletesEveryEntry ==
    [][(Handles("remove") /\ req'.parsed) =>
          IF Registered(List, req'.gallery.Name)
          THEN /\ resp'.ok
               /\ List' = Without(List, req'.gallery.Name)
               /\ ~Registered(List', req'.gallery.Name)
          ELSE /\ ~resp'.ok
               /\ resp'.err = req'.gallery.Name \o " is not currently registered"
               /\ List' = List]_vars

\* C10 witness: the first request was a DELETE that removed two entries of
\* one name (the slice has more room than it was created with and one more).
C10_Witness ==
    /\ nreq = 1
    /\ req.op = "remove"
    /\ resp.ok
    /\ SliceCap(heap, galleries) - galleries.len >= MaxSlack + 2

\* ------------------------------------------- claims on the command line

\* the positions in events of the calls named call
EventsOf(call) == {i \in 1..Len(events) : events[i].call = call}

\* call was made before position i and succeeded
SucceededBefore(call, i) == \E j \in EventsOf(call) : j < i /\ events[j].ok

\* the command's Run has its return value
RunReturned == runRet # "none"

\* option list o has the option named n
HasOption(o, n) == \E i \in 1..Len(o) : o[i].opt = n

\* option list o has the timeout option named n, once, with duration d
HasTimeout(o, n, d) ==
    /\ \E i \in 1..Len(o) : o[i].opt = n /\ o[i].dur = d
    /\ Cardinality({i \in 1..Len(o) : o[i].opt = n}) = 1

\* the timeout string s is no duration
Unparsable(s) == ~ParseDuration(s).ok

\* C11: in the run command a failed startup makes Run return a non-nil error
\* (the process exits non-zero) with the HTTP app never constructed and Listen
\* never called; http.App is only called after a Startup that succeeded and
\* Listen only after an http.App that succeeded.
C11_StartupBeforeServe ==
    /\ \A i \in EventsOf("App") : SucceededBefore("Startup", i)
    /\ \A i \in EventsOf("Listen") : SucceededBefore("App", i)
    /\ \A i \in EventsOf("Startup") :
          ~events[i].ok =>
              /\ EventsOf("App") = {}
              /\ EventsOf("Listen") = {}
              /\ runRet \notin {"none", "nil"}
              /\ exitCode \in {NotExited, 1}

\* C11 witness: a run without preload-backend-only whose startup failed has
\* exited with status 1, no signal involved.
C11_Witness ==
    /\ args.cmd = "run"
    /\ ~args.PreloadBackendOnly
    /\ \E i \in EventsOf("Startup") : ~events[i].ok
    /\ sigAt = "none"
    /\ exitCode = 1

\* C12: the run command exits with status 0 on normal shutdown: a signal
\* received while the HTTP server is listening ends the process with exit
\* code 0.
C12_SignalExitsZero == (sigAt = "listening") => exitCode = 0

C14_WatchDogOptions ==
    args.cmd = "run" =>
        LET idle == args.EnableWatchdogIdle
            busy == args.EnableWatchdogBusy
            badIdle == idle /\ Unparsable(args.WatchdogIdleTimeout)
            badBusy == busy /\ Unparsable(args.WatchdogBusyTimeout)
        IN  /\ \A i \in EventsOf("Startup") :
                  LET o == events[i].opts
                  IN  /\ HasOption(o, "EnableWatchDog") <=> (idle \/ busy)
                      /\ HasOption(o, "EnableWatchDogIdleCheck") <=> idle
                      /\ HasOption(o, "SetWatchDogIdleTimeout") <=> idle
                      /\ idle => HasTimeout(o, "SetWatchDogIdleTimeout",
                                    ParseDuration(args.WatchdogIdleTimeout).dur)
                      /\ HasOption(o, "EnableWatchDogBusyCheck") <=> busy
                      /\ HasOption(o, "SetWatchDogBusyTimeout") <=> busy
                      /\ busy => HasTimeout(o, "SetWatchDogBusyTimeout",
                                    ParseDuration(args.WatchdogBusyTimeout).dur)
            /\ (badIdle \/ badBusy) =>
                  /\ EventsOf("Startup") = {}
                  /\ runRet \notin {"none", "nil"}
            /\ (~badIdle /\ ~badBusy /\ cpc # "panicked") =>
                  (EventsOf("Startup") = {} => runRet = "none")

\* C14 witness: Startup got the idle check with its 15 minutes and no busy
\* check, the busy timeout being no duration.
C14_Witness ==
    /\ args.cmd = "run"
    /\ args.EnableWatchdogIdle
    /\ ~args.EnableWatchdogBusy
    /\ args.WatchdogIdleTimeout = "15m"
    /\ args.WatchdogBusyTimeout = "soon"
    /\ \E i \in EventsOf("Startup") :
          HasTimeout(events[i].opts, "SetWatchDogIdleTimeout", 900)

\* the external backend options of option list o, in their order
ExternalsOf(o) ==
    LET IsExternal(x) == x.opt = "WithExternalBackend" IN SelectSeq(o, IsExternal)

\* the position of the first ':' of v
FirstColon(v) ==
    CHOOSE i \in 1..Len(v) : v[i] = ":" /\ \A k \in 1..(i - 1) : v[k] # ":"

\* C15: every entry of external-grpc-backends reaches Startup as one
\* WithExternalBackend(name, addr), name the text before the first ':' and
\* addr everything after it, in the order of the entries; and no entry makes
\* Run crash, one with no ':' included.
C15_ExternalBackendsRegistered ==
    /\ cpc # "panicked"
    /\ \A i \in EventsOf("Startup") :
          LET vs == args.ExternalGRPCBackends
              xs == ExternalsOf(events[i].opts)
          IN  /\ Len(xs) = Len(vs)
              /\ \A k \in 1..Len(vs) :
                    /\ xs[k].backend = SubSeq(vs[k], 1, FirstColon(vs[k]) - 1)
                    /\ xs[k].uri = SubSeq(vs[k], FirstColon(vs[k]) + 1,
                                          Len(vs[k]))

\* the command's Run has returned to main, no signal having ended the process
ReturnedToMain == cpc \in {"returned", "exited"} /\ sigAt = "none" /\ RunReturned

\* the last position in events of a call named call (0 when there is none)
LastOf(call) ==
    IF EventsOf(call) = {} THEN 0
    ELSE CHOOSE i \in EventsOf(call) : \A j \in EventsOf(call) : j <= i

\* the tts command: StopAllGRPC never runs twice, and once Run has returned
\* it ran once, after ModelTTS and the rename, and no backend is left running
TTSStopsOnReturn ==
    args.cmd = "tts" =>
        /\ Cardinality(EventsOf("StopAllGRPC")) <= 1
        /\ ReturnedToMain =>
              /\ Cardinality(EventsOf("StopAllGRPC")) = 1
              /\ LastOf("StopAllGRPC") > LastOf("ModelTTS")
              /\ LastOf("StopAllGRPC") > LastOf("Rename")
              /\ LastOf("ModelTTS") > 0
              /\ loaded = 0

\* C16 as stated: the tts command runs StopAllGRPC exactly once before it
\* returns, on each of its exit paths; the transcript command either returns
\* "model not found" with no backend loaded, or else runs StopAllGRPC exactly
\* once before it returns.
C16_OneShotStopsBackends ==
    /\ TTSStopsOnReturn
    /\ (args.cmd = "transcript" /\ ReturnedToMain) =>
          \/ /\ runRet = "model not found"
             /\ EventsOf("ModelTranscription") = {}
             /\ EventsOf("StopAllGRPC") = {}
             /\ loaded = 0
          \/ /\ Cardinality(EventsOf("StopAllGRPC")) = 1
             /\ loaded = 0

\* C16: the tts command runs StopAllGRPC exactly once before it returns, on
\* each of its exit paths. The transcript command returns the load error when
\* the configs cannot be loaded and "model not found" when the model has no
\* config, in both cases with no backend loaded and StopAllGRPC not run; in
\* every other case it runs StopAllGRPC exactly once, after the
\* transcription, before it returns.
C16_OneShotStopsOnceLoaded ==
    /\ TTSStopsOnReturn
    /\ (args.cmd = "transcript" /\ ReturnedToMain) =>
          IF \E i \in EventsOf("LoadBackendConfigsFromPath") : ~events[i].ok
          THEN /\ runRet = "load error"
               /\ EventsOf("GetBackendConfig") = {}
               /\ EventsOf("ModelTranscription") = {}
               /\ EventsOf("StopAllGRPC") = {}
               /\ loaded = 0
          ELSE IF \E i \in EventsOf("GetBackendConfig") : ~events[i].ok
          THEN /\ runRet = "model not found"
               /\ EventsOf("ModelTranscription") = {}
               /\ EventsOf("StopAllGRPC") = {}
               /\ loaded = 0
          ELSE /\ Cardinality(EventsOf("StopAllGRPC")) = 1
               /\ LastOf("StopAllGRPC") > LastOf("ModelTranscription")
               /\ LastOf("ModelTranscription") > 0
               /\ loaded = 0

\* C16 witness: a tts run whose rename failed has returned, its backend
\* stopped.
C16_Witness ==
    /\ args.cmd = "tts"
    /\ cpc = "returned"
    /\ runRet = "rename error"
    /\ LastOf("StopAllGRPC") > LastOf("Rename")
    /\ loaded = 0

\* ------------------------------------------- claims on the streaming fallback

\* the chunks of stream c sent so far: received or still in the channel
Delivered(c) == received[c] \o chbuf[c]

\* C17: a PredictStream sends one chunk, the text its dolly.Predict returned
\* (also when that call failed), closes the channel after it and releases the
\* lock only after the close; the consumer that receives until the close got
\* exactly that chunk; PredictStream returns nil, before the prediction is
\* made; and, the consumers receiving, under fair scheduling every stream
\* comes to its end.
C17_StreamIsPredictFallback ==
    /\ [](\A c \in Calls :
            kind[c] = "PredictStream" =>
                /\ pc[c] = "done" => ret[c] = [res |-> "", err |-> "nil"]
                /\ gpc[c] \in {"none", "predict", "send"} =>
                      Delivered(c) = <<>> /\ closes[c] = 0
                /\ gpc[c] \in {"close", "unlock", "exit"} =>
                      Delivered(c) = <<gres[c].res>>
                /\ gpc[c] \in {"unlock", "exit"} => closes[c] = 1
                /\ gpc[c] \in {"predict", "send", "close", "unlock"} =>
                      holder = c
                /\ consumer[c] = "ended" => received[c] = <<gres[c].res>>)
    /\ \A c \in Calls : [](gpc[c] = "predict" => <>StreamOver(c))

\* C17 witness: a stream whose prediction failed with a partial text is over,
\* its consumer having received that text, the lock released; a later stream
\* has returned while its prediction is still to be made.
C17_Witness ==
    \E c, d \in Calls :
        /\ StreamOver(c)
        /\ gres[c] = [res |-> "tok", err |-> "err"]
        /\ received[c] = <<"tok">>
        /\ kind[d] = "PredictStream"
        /\ pc[d] = "done"
        /\ ret[d].err = "nil"
        /\ gpc[d] = "predict"
        /\ holder = d

\* ------------------------------- claims on the gallery list under sharing

\* a DELETE of name n has got past its body parse
RemoveStarted(n) ==
    \E k \in Handlers :
        hop[k] = "remove" /\ hin[k].Name = n /\ hpc[k] \notin {"idle", "check"}

\* C18: with handlers of /models/galleries running concurrently on a list of
\* distinct names, the names stay pairwise distinct (of POSTs of one new name
\* at most one appends), and no update is lost: the gallery of a POST that
\* answered is in the list unless a DELETE of its name has begun to delete.
C18_ConcurrentNamesDistinct ==
    /\ DistinctNames(List)
    /\ \A h \in Handlers :
          (hop[h] = "add" /\ hok[h] /\ ~RemoveStarted(hin[h].Name))
              => Registered(List, hin[h].Name)

\* the ops enqueued and not yet processed: on the channel, or received by the
\* installer with no status recorded yet
PendingOps(ch, cur, st) ==
    {ch[i] : i \in 1..Len(ch)}
        \cup (IF cur # NoOp /\ st[cur.Id] = "none" THEN {cur} ELSE {})

\* C19: no step changes the Galleries (entries and order) of an op that is
\* enqueued and not yet processed, before and after the step.
C19_EnqueuedGalleriesFrozen ==
    [][\A op \in PendingOps(C, current, statuses)
                    \cap PendingOps(C', current', statuses') :
          SliceElems(heap', op.Galleries) = SliceElems(heap, op.Galleries)]_vars

====
